---- MODULE Spec2Model ----
(***************************************************************************)
(* Model of JetiTelemetryParser (src/JETI_Log_Parser.py).                  *)
(*                                                                         *)
(* A string is a sequence of one-character strings, so that startswith,    *)
(* split, strip and int are computed character by character as Python     *)
(* computes them.  A dict is a function whose DOMAIN is its key set.  A    *)
(* float produced by the true division of two integers is the exact        *)
(* rational <<numerator, denominator>> in lowest terms (the rounding of    *)
(* the quotient to the nearest binary64 is not modelled).  An uncaught     *)
(* exception ends parse(): exc names it and pc stays at the pass that       *)
(* raised it, li at the line.                                              *)
(***************************************************************************)
EXTENDS Integers, Sequences, FiniteSets, TLC

VARIABLES lines, devices, device_id_to_name, pc, li, si, exc

vars == <<lines, devices, device_id_to_name, pc, li, si, exc>>

\* Longest log (number of lines) that Init draws.
MaxLines == 4

----------------------------------------------------------------------------
(* Python values and string functions                                      *)

\* None: a one-element tuple that no string (sequence of characters) equals.
None == <<"None">>

\* bool(v) for v a str or None: None and "" are falsy.
Truthy(v) == v # None /\ v # <<>>

Digits == {"0", "1", "2", "3", "4", "5", "6", "7", "8", "9"}

Whitespace == {" ", "\t"}

\* The literal "000000000" of both passes.
MARKER == <<"0", "0", "0", "0", "0", "0", "0", "0", "0">>

\* The literal "#".
HASH == <<"#">>

\* s.startswith(p)
StartsWith(s, p) == Len(s) >= Len(p) /\ SubSeq(s, 1, Len(p)) = p

\* s.split(";")
RECURSIVE Split(_)
Split(s) ==
    IF \E i \in 1..Len(s) : s[i] = ";"
    THEN LET i == CHOOSE k \in 1..Len(s) :
                      s[k] = ";" /\ \A j \in 1..(k - 1) : s[j] # ";"
         IN  <<SubSeq(s, 1, i - 1)>> \o Split(SubSeq(s, i + 1, Len(s)))
    ELSE <<s>>

\* s.strip()
RECURSIVE Strip(_)
Strip(s) ==
    IF s = <<>> THEN s
    ELSE IF s[1] \in Whitespace THEN Strip(Tail(s))
    ELSE IF s[Len(s)] \in Whitespace THEN Strip(SubSeq(s, 1, Len(s) - 1))
    ELSE s

\* The digits of an int literal after strip() and the sign are removed.
IntBody(s) ==
    LET t == Strip(s)
    IN  IF t # <<>> /\ t[1] \in {"+", "-"} THEN Tail(t) ELSE t

\* int(s) returns (TRUE) or raises ValueError (FALSE): optional surrounding
\* whitespace, optional sign, digits with single underscores between them.
IsInt(s) ==
    LET b == IntBody(s)
    IN  /\ b # <<>>
        /\ \A i \in 1..Len(b) : b[i] \in Digits \cup {"_"}
        /\ b[1] # "_" /\ b[Len(b)] # "_"
        /\ \A i \in 1..(Len(b) - 1) : ~(b[i] = "_" /\ b[i + 1] = "_")

DigitVal(c) ==
    CASE c = "0" -> 0 [] c = "1" -> 1 [] c = "2" -> 2 [] c = "3" -> 3
      [] c = "4" -> 4 [] c = "5" -> 5 [] c = "6" -> 6 [] c = "7" -> 7
      [] c = "8" -> 8 [] c = "9" -> 9

RECURSIVE Magnitude(_)
Magnitude(b) ==
    IF b = <<>> THEN 0
    ELSE IF b[Len(b)] = "_" THEN Magnitude(SubSeq(b, 1, Len(b) - 1))
    ELSE 10 * Magnitude(SubSeq(b, 1, Len(b) - 1)) + DigitVal(b[Len(b)])

\* int(s) where IsInt(s)
IntOf(s) ==
    LET t == Strip(s)
    IN  IF t[1] = "-" THEN 0 - Magnitude(IntBody(s)) ELSE Magnitude(IntBody(s))

----------------------------------------------------------------------------
(* Arithmetic of line 68                                                   *)

RECURSIVE Pow10(_)
Pow10(n) == IF n <= 0 THEN 1 ELSE 10 * Pow10(n - 1)

Abs(x) == IF x < 0 THEN 0 - x ELSE x

RECURSIVE Gcd(_, _)
Gcd(a, b) == IF b = 0 THEN a ELSE Gcd(b, a % b)

\* The rational n/d (d > 0) in lowest terms.
Rational(n, d) ==
    LET g == Gcd(Abs(n), d) IN <<n \div g, d \div g>>

\* raw_value // (10 ** decimal_places): floor division instead of true division.
FloorFinalValue(raw_value, decimal_places) ==
    IF decimal_places >= 0
    THEN <<raw_value \div Pow10(decimal_places), 1>>
    ELSE <<raw_value * Pow10(0 - decimal_places), 1>>

\* final_value = raw_value / (10 ** decimal_places); 10 ** d is the float
\* 1/10^-d when d < 0.  (The ZeroDivisionError and OverflowError of a
\* decimal_places of several hundred digits' magnitude are outside the
\* inputs drawn here.)
FinalValue(raw_value, decimal_places) ==
    IF decimal_places >= 0
    THEN Rational(raw_value, Pow10(decimal_places))
    ELSE Rational(raw_value * Pow10(0 - decimal_places), 1)

----------------------------------------------------------------------------
(* Dicts                                                                   *)

\* {}
EmptyDict == <<>>

\* d[k] = v
Put(d, k, v) == [x \in DOMAIN d \cup {k} |-> IF x = k THEN v ELSE d[x]]

\* d.get(k)
Get(d, k) == IF k \in DOMAIN d THEN d[k] ELSE None

----------------------------------------------------------------------------
(* _parse_devices                                                          *)

\* Lines 20-25: the line is not device metadata in pass 1.
SkippedByDevices(line) ==
    \/ StartsWith(line, HASH)
    \/ Len(Split(line)) < 4
    \/ Split(line)[1] # MARKER

\* Lines 27-28: int(parts[1]) or int(parts[2]) raises ValueError.
DevicesLineRaises(line) ==
    ~IsInt(Split(line)[2]) \/ ~IsInt(Split(line)[3])

\* Line 30: parts[4].strip() if len(parts) > 4 else None
UnitOf(parts) == IF Len(parts) > 4 THEN Strip(parts[5]) ELSE None

\* self.devices[device_name] = {...} on every device name line.
RecreateDevice(devs, device_name) ==
    Put(devs, device_name, [channels |-> EmptyDict, data |-> EmptyDict])

\* Lines 36-37: create the device unless its name is already a key.
EnsureDevice(devs, device_name) ==
    IF device_name \notin DOMAIN devs
    THEN Put(devs, device_name, [channels |-> EmptyDict, data |-> EmptyDict])
    ELSE devs

\* Lines 40-47: register a channel under the name the device id maps to.
DeclareChannel(devs, reg, device_id, channel_id, channel_name, unit) ==
    LET device_name == Get(reg, device_id)
    IN  IF Truthy(device_name)
        THEN Put(devs, device_name,
                 [channels |-> Put(devs[device_name].channels, channel_id,
                                   [name |-> channel_name, unit |-> unit]),
                  data |-> Put(devs[device_name].data, channel_id, <<>>)])
        ELSE devs

\* One iteration of the loop of lines 19-47.
ParseDevicesLine ==
    /\ pc = "parse_devices"
    /\ exc = "none"
    /\ li <= Len(lines)
    /\ LET line == lines[li]
           parts == Split(line)
       IN  IF SkippedByDevices(line)
           THEN /\ li' = li + 1
                /\ UNCHANGED <<devices, device_id_to_name, exc>>
           ELSE IF DevicesLineRaises(line)
           THEN /\ exc' = "ValueError"
                /\ UNCHANGED <<devices, device_id_to_name, li>>
           ELSE LET device_id == IntOf(parts[2])
                    channel_id == IntOf(parts[3])
                    channel_name == Strip(parts[4])
                    unit == UnitOf(parts)
                IN  /\ IF channel_id = 0
                       THEN /\ device_id_to_name' =
                                   Put(device_id_to_name, device_id, channel_name)
                            /\ devices' = EnsureDevice(devices, channel_name)
                       ELSE /\ devices' = DeclareChannel(devices, device_id_to_name,
                                              device_id, channel_id, channel_name, unit)
                            /\ UNCHANGED device_id_to_name
                    /\ li' = li + 1
                    /\ UNCHANGED exc
    /\ UNCHANGED <<lines, pc, si>>

\* Pass 2 starts although lines of pass 1 remain.
DevicesLoopEndsEarly(n, i) == i > 1 \/ i > n

\* The for loop of line 19 is exhausted after n lines.
DevicesLoopDone(n, i) == i > n

\* Lines 14-15: _parse_devices returns and _parse_entries starts.
StartEntries ==
    /\ pc = "parse_devices"
    /\ exc = "none"
    /\ DevicesLoopDone(Len(lines), li)
    /\ pc' = "parse_entries"
    /\ li' = 1
    /\ si' = -1
    /\ UNCHANGED <<lines, devices, device_id_to_name, exc>>

----------------------------------------------------------------------------
(* _parse_entries                                                          *)

\* Lines 52-57: the line is skipped by pass 2.
SkippedByEntries(line) ==
    \/ StartsWith(line, HASH)
    \/ StartsWith(line, MARKER)
    \/ Len(Split(line)) < 6

\* Lines 59-60: int(parts[0]) or int(parts[1]) raises ValueError.
EntryHeadRaises(line) ==
    ~IsInt(Split(line)[1]) \/ ~IsInt(Split(line)[2])

\* Line 61: parts[2:]
ChannelData(line) == SubSeq(Split(line), 3, Len(Split(line)))

\* Lines 64-67 at offset i (0-based) of channel_data, in evaluation order:
\* the exception raised, or "none".
StrideRaises(cd, i) ==
    IF ~IsInt(cd[i + 1]) THEN "ValueError"
    ELSE IF i + 2 >= Len(cd) THEN "IndexError"
    ELSE IF ~IsInt(cd[i + 3]) THEN "ValueError"
    ELSE IF i + 3 >= Len(cd) THEN "IndexError"
    ELSE IF ~IsInt(cd[i + 4]) THEN "ValueError"
    ELSE "none"

\* list.insert(0, ...) instead of list.append(...).
PrependSample(data_points, timestamp, final_value) ==
    <<<<timestamp, final_value>>>> \o data_points

\* Line 73: data_points.append((timestamp, final_value))
AppendSample(data_points, timestamp, final_value) ==
    Append(data_points, <<timestamp, final_value>>)

\* setdefault(channel_id, []) on the data dict of a known device, so that an
\* undeclared channel gets a Series.
ApplyStrideCreating(devs, reg, device_id, channel_id, timestamp, final_value) ==
    LET device_name == Get(reg, device_id)
    IN  IF Truthy(device_name)
        THEN Put(devs, device_name,
                 [channels |-> devs[device_name].channels,
                  data |-> Put(devs[device_name].data, channel_id,
                               AppendSample(Get(devs[device_name].data, channel_id),
                                            timestamp, final_value))])
        ELSE devs

\* Lines 70-73: resolve the device and the channel, append the sample.
ApplyStride(devs, reg, device_id, channel_id, timestamp, final_value) ==
    LET device_name == Get(reg, device_id)
    IN  IF Truthy(device_name) /\ channel_id \in DOMAIN devs[device_name].data
        THEN Put(devs, device_name,
                 [channels |-> devs[device_name].channels,
                  data |-> Put(devs[device_name].data, channel_id,
                               AppendSample(devs[device_name].data[channel_id],
                                            timestamp, final_value))])
        ELSE devs

\* Lines 51-61: the head of one iteration of the loop over lines.
EntryLine ==
    /\ pc = "parse_entries"
    /\ exc = "none"
    /\ si = -1
    /\ li <= Len(lines)
    /\ IF SkippedByEntries(lines[li])
       THEN /\ li' = li + 1
            /\ UNCHANGED <<si, exc>>
       ELSE IF EntryHeadRaises(lines[li])
       THEN /\ exc' = "ValueError"
            /\ UNCHANGED <<li, si>>
       ELSE /\ si' = 0
            /\ UNCHANGED <<li, exc>>
    /\ UNCHANGED <<lines, devices, device_id_to_name, pc>>

\* Lines 63-73: one iteration of the loop over range(0, len(channel_data), 4).
DecodeStride ==
    /\ pc = "parse_entries"
    /\ exc = "none"
    /\ si >= 0
    /\ LET parts == Split(lines[li])
           timestamp == IntOf(parts[1])
           device_id == IntOf(parts[2])
           channel_data == ChannelData(lines[li])
           raised == StrideRaises(channel_data, si)
       IN  IF raised # "none"
           THEN /\ exc' = raised
                /\ UNCHANGED <<devices, li, si>>
           ELSE LET channel_id == IntOf(channel_data[si + 1])
                    decimal_places == IntOf(channel_data[si + 3])
                    raw_value == IntOf(channel_data[si + 4])
                    final_value == FinalValue(raw_value, decimal_places)
                IN  /\ devices' = ApplyStride(devices, device_id_to_name, device_id,
                                              channel_id, timestamp, final_value)
                    /\ IF si + 4 < Len(channel_data)
                       THEN si' = si + 4 /\ UNCHANGED li
                       ELSE si' = -1 /\ li' = li + 1
                    /\ UNCHANGED exc
    /\ UNCHANGED <<lines, device_id_to_name, pc>>

\* float(timestamp): the int as a float.
Float(n) == Rational(n, 1)

\* np.array(data_points): row k is [float(timestamp), final_value].
NpArray(data_points) ==
    [k \in 1..Len(data_points) |->
        <<Float(data_points[k][1]), data_points[k][2]>>]

\* Lines 76-78: every list of data points becomes an array.
ConvertAll(devs) ==
    [n \in DOMAIN devs |->
        [channels |-> devs[n].channels,
         data |-> [c \in DOMAIN devs[n].data |-> NpArray(devs[n].data[c])]]]

\* Lines 75-78, then parse() returns.
Finish ==
    /\ pc = "parse_entries"
    /\ exc = "none"
    /\ si = -1
    /\ li > Len(lines)
    /\ devices' = ConvertAll(devices)
    /\ pc' = "done"
    /\ UNCHANGED <<lines, device_id_to_name, li, si, exc>>

Next == ParseDevicesLine \/ StartEntries \/ EntryLine \/ DecodeStride \/ Finish

----------------------------------------------------------------------------
(* Input logs                                                              *)

\* ";".join(fields)
RECURSIVE Join(_)
Join(fields) ==
    IF Len(fields) = 1 THEN fields[1]
    ELSE fields[1] \o <<";">> \o Join(Tail(fields))

N0 == <<"0">>
N1 == <<"1">>
N2 == <<"2">>
N7 == <<"7">>
N8 == <<"8">>
N15 == <<"1", "5">>
N16 == <<"1", "6">>
N99 == <<"9", "9">>
T900 == <<"9", "0", "0">>
T1000 == <<"1", "0", "0", "0">>
R12345 == <<"1", "2", "3", "4", "5">>
RMinus500 == <<"-", "5", "0", "0">>
NotAnInt == <<"x">>
MHB == <<"M", "H", "B">>
Altitude == <<"A", "l", "t", "i", "t", "u", "d", "e">>
Metre == <<"m">>
Height == <<"H", "g", "t">>
Feet == <<"f", "t">>
Volt == <<"V">>
Blank == <<" ">>

\* 000000000;7;0;MHB
DevMHB7 == Join(<<MARKER, N7, N0, MHB>>)
\* 000000000;8;0;MHB   (a second id for the same name)
DevMHB8 == Join(<<MARKER, N8, N0, MHB>>)
\* 000000000;7;0;      (a name that strips to "")
DevBlank7 == Join(<<MARKER, N7, N0, Blank>>)
\* 000000000;x;0;MHB
DevBadId == Join(<<MARKER, NotAnInt, N0, MHB>>)
\* 000000000;7;15;Altitude;m
ChAlt7 == Join(<<MARKER, N7, N15, Altitude, Metre>>)
\* 000000000;8;15;Hgt;ft
ChHgt8 == Join(<<MARKER, N8, N15, Height, Feet>>)
\* 000000000;7;16;V    (no unit field)
ChVolt7 == Join(<<MARKER, N7, N16, Volt>>)
\* #c
Comment == <<"#", "c">>
\* 1000;7;15;0;2;12345
DataAlt == Join(<<T1000, N7, N15, N0, N2, R12345>>)
\* 900;7;15;0;1;-500
DataNeg == Join(<<T900, N7, N15, N0, N1, RMinus500>>)
\* 1000;7;99;0;0;7;16;0;1;-500   (channel 99 is declared nowhere)
DataMixed == Join(<<T1000, N7, N99, N0, N0, N7, N16, N0, N1, RMinus500>>)
\* 1000;7;15;0;2;12345;15;0;x;1
DataBadRaw == Join(<<T1000, N7, N15, N0, N2, R12345, N15, N0, NotAnInt, N1>>)
\* 1000;7;15;0;2;12345;15
DataPartial == Join(<<T1000, N7, N15, N0, N2, R12345, N15>>)
\* 0000000001;7;15;0;2;12345
DataPrefixed == Join(<<MARKER \o N1, N7, N15, N0, N2, R12345>>)
\* 1000;7;15
DataShort == Join(<<T1000, N7, N15>>)

\* Lines for the Entry Decoder: device 7 named MHB or "", two channels, data
\* lines with one and two strides, one of them malformed.
DecodeLines ==
    {DevMHB7, DevBlank7, ChAlt7, ChVolt7,
     DataAlt, DataNeg, DataMixed, DataBadRaw}

\* Lines for the Registry Builder: one name under two ids, one channel id
\* declared under both, a name that is "", a non-integer id, a data line.
RegistryLines ==
    {DevMHB7, DevMHB8, DevBlank7, DevBadId, ChAlt7, ChHgt8, ChVolt7, DataAlt}

\* Lines for the error paths: non-integer fields, a partial stride, a
\* timestamp that begins with the marker, too few fields, a comment.
MalformedLines ==
    {DevMHB7, DevBadId, ChAlt7, Comment,
     DataAlt, DataBadRaw, DataPartial, DataPrefixed, DataShort}

\* Every log of at most MaxLines lines over a pool of lines.
Logs(pool) == UNION {[1..n -> pool] : n \in 0..MaxLines}

\* __init__, then line 13: lines = self.raw_data.splitlines()
InitOver(pool) ==
    /\ lines \in Logs(pool)
    /\ devices = EmptyDict
    /\ device_id_to_name = EmptyDict
    /\ pc = "parse_devices"
    /\ li = 1
    /\ si = -1
    /\ exc = "none"

Init == InitOver(DecodeLines)

InitRegistry == InitOver(RegistryLines)

InitMalformed == InitOver(MalformedLines)

Spec == Init /\ [][Next]_vars

SpecRegistry == InitRegistry /\ [][Next]_vars

SpecMalformed == InitMalformed /\ [][Next]_vars

TypeOK ==
    /\ pc \in {"parse_devices", "parse_entries", "done"}
    /\ exc \in {"none", "ValueError", "IndexError"}
    /\ li \in 1..(Len(lines) + 1)
    /\ si \in {-1} \cup {4 * k : k \in 0..2}
    /\ \A id \in DOMAIN device_id_to_name : device_id_to_name[id] \in DOMAIN devices
    /\ \A n \in DOMAIN devices : DOMAIN devices[n].channels = DOMAIN devices[n].data

----------------------------------------------------------------------------
(* The log, read declaratively                                             *)

Fields(k) == Split(lines[k])

Max(S) == CHOOSE x \in S : \A y \in S : y <= x

\* Line k is a metadata line whose two id fields are integers.
MetadataLine(k) ==
    /\ ~StartsWith(lines[k], HASH)
    /\ Len(Fields(k)) >= 4
    /\ Fields(k)[1] = MARKER
    /\ IsInt(Fields(k)[2])
    /\ IsInt(Fields(k)[3])

DeviceNameLine(k) == MetadataLine(k) /\ IntOf(Fields(k)[3]) = 0

ChannelLine(k) == MetadataLine(k) /\ IntOf(Fields(k)[3]) # 0

\* The name that the last device name line before line k gives to device id,
\* None when there is no such line.
NameAt(k, id) ==
    LET S == {j \in 1..(k - 1) : DeviceNameLine(j) /\ IntOf(Fields(j)[2]) = id}
    IN  IF S = {} THEN None ELSE Strip(Fields(Max(S))[4])

\* The descriptor that channel line k declares.
DescriptorOf(k) == [name |-> Strip(Fields(k)[4]), unit |-> UnitOf(Fields(k))]

\* Line k declares channel c of the device named n (a name, and not "").
Declares(k, n, c) ==
    /\ ChannelLine(k)
    /\ IntOf(Fields(k)[3]) = c
    /\ n # None
    /\ n # <<>>
    /\ NameAt(k, IntOf(Fields(k)[2])) = n

\* The number of lines that pass 1 has processed.
Scanned == IF pc = "parse_devices" THEN li - 1 ELSE Len(lines)

\* Offsets at which a stride of channel_data starts.
StrideOffsets(cd) == {i \in 0..(Len(cd) - 1) : i % 4 = 0}

\* The stride at offset i is complete and its three decoded fields are integers.
WellFormedStride(cd, i) ==
    /\ i + 4 <= Len(cd)
    /\ IsInt(cd[i + 1])
    /\ IsInt(cd[i + 3])
    /\ IsInt(cd[i + 4])

\* Line k is one that pass 2 decodes: not a comment, not skipped as metadata,
\* at least 6 fields.
DecodedLine(k) == ~SkippedByEntries(lines[k])

\* Line k is decoded and nothing in it is malformed.
WellFormedLine(k) ==
    /\ DecodedLine(k)
    /\ IsInt(Fields(k)[1])
    /\ IsInt(Fields(k)[2])
    /\ \A i \in StrideOffsets(ChannelData(lines[k])) :
           WellFormedStride(ChannelData(lines[k]), i)

\* The points of channel c in the strides of cd from offset i on, in order.
RECURSIVE StridePoints(_, _, _, _)
StridePoints(cd, ts, c, i) ==
    IF i >= Len(cd) THEN <<>>
    ELSE (IF IntOf(cd[i + 1]) = c
          THEN <<<<ts, FinalValue(IntOf(cd[i + 4]), IntOf(cd[i + 3]))>>>>
          ELSE <<>>)
         \o StridePoints(cd, ts, c, i + 4)

\* The points that line k holds for channel c of the device named n.
LinePoints(n, c, k) ==
    IF WellFormedLine(k) /\ Get(device_id_to_name, IntOf(Fields(k)[2])) = n
    THEN StridePoints(ChannelData(lines[k]), IntOf(Fields(k)[1]), c, 0)
    ELSE <<>>

\* The points of lines 1..k for channel c of device n, in line order.
RECURSIVE ExpectedSeries(_, _, _)
ExpectedSeries(n, c, k) ==
    IF k = 0 THEN <<>> ELSE ExpectedSeries(n, c, k - 1) \o LinePoints(n, c, k)

Range(f) == {f[x] : x \in DOMAIN f}

----------------------------------------------------------------------------
(* Claims about the Entry Decoder                                          *)

\* C3: a decoded stride whose device id is not in the registry, or whose
\* channel id is not declared for the device, changes no Series, creates no
\* device or channel entry, raises nothing and lets the loop go on to the
\* next stride; a stride that resolves is appended to its own Series and
\* changes nothing else.
C3_UnresolvedStrideDroppedAlone ==
    [][(/\ pc = "parse_entries"
        /\ exc = "none"
        /\ si >= 0
        /\ WellFormedStride(ChannelData(lines[li]), si))
       => LET cd == ChannelData(lines[li])
              id == IntOf(Fields(li)[2])
              ch == IntOf(cd[si + 1])
              n == Get(device_id_to_name, id)
              resolves == /\ id \in DOMAIN device_id_to_name
                          /\ ch \in DOMAIN devices[n].channels
              goes_on == IF si + 4 < Len(cd)
                         THEN si' = si + 4 /\ li' = li
                         ELSE si' = -1 /\ li' = li + 1
          IN  /\ exc' = "none"
              /\ goes_on
              /\ device_id_to_name' = device_id_to_name
              /\ DOMAIN devices' = DOMAIN devices
              /\ \A m \in DOMAIN devices :
                    /\ devices'[m].channels = devices[m].channels
                    /\ DOMAIN devices'[m].data = DOMAIN devices[m].data
                    /\ \A c \in DOMAIN devices[m].data :
                          IF resolves /\ m = n /\ c = ch
                          THEN /\ Len(devices'[m].data[c]) = Len(devices[m].data[c]) + 1
                               /\ SubSeq(devices'[m].data[c], 1, Len(devices[m].data[c]))
                                     = devices[m].data[c]
                          ELSE devices'[m].data[c] = devices[m].data[c]
      ]_vars

\* C3 witness: in the log (device 7 = MHB, channel 16, 1000;7;99;...;16;...)
\* the stride of the undeclared channel 99 was dropped and the stride of
\* channel 16 after it was appended.
C3_Witness ==
    /\ pc = "done"
    /\ lines = <<DevMHB7, ChVolt7, DataMixed>>
    /\ DOMAIN devices = {MHB}
    /\ DOMAIN devices[MHB].data = {16}
    /\ Len(devices[MHB].data[16]) = 1

\* C5: at every line boundary of pass 2, and in the arrays after parse(),
\* the Series of each (device, channel) is exactly the resolved points of
\* that channel in line order, then stride order: nothing reordered by
\* timestamp, nothing deduplicated.
C5_SeriesInEncounterOrder ==
    /\ (pc = "parse_entries" /\ exc = "none" /\ si = -1)
          => \A n \in DOMAIN devices : \A c \in DOMAIN devices[n].data :
                devices[n].data[c] = ExpectedSeries(n, c, li - 1)
    /\ pc = "done"
          => \A n \in DOMAIN devices : \A c \in DOMAIN devices[n].data :
                devices[n].data[c] = NpArray(ExpectedSeries(n, c, Len(lines)))

\* C5 witness: a Series after parse() whose timestamps go down (1000, then
\* 900) from one row to the next.
C5_Witness ==
    /\ pc = "done"
    /\ \E n \in DOMAIN devices : \E c \in DOMAIN devices[n].data :
          \E k \in 1..(Len(devices[n].data[c]) - 1) :
             devices[n].data[c][k][1][1] > devices[n].data[c][k + 1][1][1]

\* C9: every appended point pairs the line's timestamp with the value v for
\* which v * 10^d = r, where r is the raw integer and d >= 0 the decimal
\* places of the stride; raw 12345 with d = 2 is 123.45 (12345/100) at
\* timestamp 1000 and raw -500 with d = 1 is -50.
C9_FixedPointDecode ==
    /\ [][(/\ pc = "parse_entries"
           /\ si >= 0
           /\ devices' # devices)
          => LET cd == ChannelData(lines[li])
                 ts == IntOf(Fields(li)[1])
                 n == device_id_to_name[IntOf(Fields(li)[2])]
                 ch == IntOf(cd[si + 1])
                 d == IntOf(cd[si + 3])
                 r == IntOf(cd[si + 4])
                 point == devices'[n].data[ch][Len(devices'[n].data[ch])]
             IN  /\ point[1] = ts
                 /\ d >= 0 => /\ point[2][1] * Pow10(d) = r * point[2][2]
                              /\ point[2][2] > 0
                              /\ (r < 0) = (point[2][1] < 0)
         ]_vars
    /\ [](pc = "done" /\ lines = <<DevMHB7, ChAlt7, DataAlt>>
            => /\ Len(devices[MHB].data[15]) = 1
               /\ devices[MHB].data[15][1][1] = <<1000, 1>>
               /\ devices[MHB].data[15][1][2][1] * 100
                     = 12345 * devices[MHB].data[15][1][2][2])
    /\ [](pc = "done" /\ lines = <<DevMHB7, ChAlt7, DataNeg>>
            => /\ Len(devices[MHB].data[15]) = 1
               /\ devices[MHB].data[15][1] = <<<<900, 1>>, <<-50, 1>>>>)

\* C9 witness: parse() of 000000000;7;0;MHB, 000000000;7;15;Altitude;m,
\* 1000;7;15;0;2;12345 has returned with one row in MHB / 15.
C9_Witness ==
    /\ pc = "done"
    /\ lines = <<DevMHB7, ChAlt7, DataAlt>>
    /\ Len(devices[MHB].data[15]) = 1


\* C4: pass 2 starts only when pass 1 has scanned every line; pass 2 never
\* changes the device-id registry or a channel descriptor; while pass 2 runs
\* the registry is the one the whole log gives; and after parse() every
\* well-formed point whose device and channel the log declares anywhere,
\* before or after the data line, is in its Series.
C4_RegistryCompleteBeforeDecoding ==
    /\ [][/\ (pc = "parse_devices" /\ pc' = "parse_entries") => li > Len(lines)
          /\ pc = "parse_entries"
                => /\ device_id_to_name' = device_id_to_name
                   /\ DOMAIN devices' = DOMAIN devices
                   /\ \A n \in DOMAIN devices :
                         devices'[n].channels = devices[n].channels
         ]_vars
    /\ [](pc \in {"parse_entries", "done"}
            => /\ \A id \in DOMAIN device_id_to_name :
                     device_id_to_name[id] = NameAt(Len(lines) + 1, id)
               /\ \A k \in 1..Len(lines) :
                     DeviceNameLine(k)
                        => IntOf(Fields(k)[2]) \in DOMAIN device_id_to_name)
    /\ [](pc = "done"
            => \A k \in 1..Len(lines) :
                  WellFormedLine(k)
                     => LET cd == ChannelData(lines[k])
                            n == NameAt(Len(lines) + 1, IntOf(Fields(k)[2]))
                        IN  \A i \in StrideOffsets(cd) :
                               (\E j \in 1..Len(lines) :
                                   Declares(j, n, IntOf(cd[i + 1])))
                               => /\ n \in DOMAIN devices
                                  /\ IntOf(cd[i + 1]) \in DOMAIN devices[n].data
                                  /\ <<Float(IntOf(Fields(k)[1])),
                                       FinalValue(IntOf(cd[i + 4]), IntOf(cd[i + 3]))>>
                                        \in Range(devices[n].data[IntOf(cd[i + 1])]))

\* C4 witness: the data line 1000;7;15;0;2;12345 comes first, the lines that
\* declare device 7 and channel 15 after it, and its point is in MHB / 15.
C4_Witness ==
    /\ pc = "done"
    /\ lines = <<DataAlt, DevMHB7, ChAlt7>>
    /\ Len(devices[MHB].data[15]) = 1


----------------------------------------------------------------------------
(* Claims about the Registry Builder                                       *)

\* C6: a pass 1 step over a channel declaration line (channel id # 0)
\* stores the line's descriptor and an empty Series under (name of the
\* device id, channel id) when a device name line for that id came earlier,
\* whatever the name, and changes nothing when none did.
C6_ChannelRegisteredIffDeviceNamed ==
    [][(/\ pc = "parse_devices"
        /\ li <= Len(lines)
        /\ li' = li + 1
        /\ ChannelLine(li))
       => LET id == IntOf(Fields(li)[2])
              c == IntOf(Fields(li)[3])
              n == NameAt(li, id)
          IN  IF \E j \in 1..(li - 1) : DeviceNameLine(j) /\ IntOf(Fields(j)[2]) = id
              THEN /\ n \in DOMAIN devices'
                   /\ c \in DOMAIN devices'[n].channels
                   /\ devices'[n].channels[c] = DescriptorOf(li)
                   /\ c \in DOMAIN devices'[n].data
                   /\ devices'[n].data[c] = <<>>
              ELSE /\ devices' = devices
                   /\ device_id_to_name' = device_id_to_name
      ]_vars

\* C7: a pass 1 step removes no device and no channel descriptor; the
\* devices are one per declared name, however many ids or lines declare it;
\* and the channel map of a device holds exactly the channels declared so
\* far under any id mapped to its name, each with the descriptor of its
\* last declaration in log order.
C7_RedeclaredNameMergesChannels ==
    /\ [][\A n \in DOMAIN devices :
             /\ n \in DOMAIN devices'
             /\ \A c \in DOMAIN devices[n].channels :
                   c \in DOMAIN devices'[n].channels
         ]_vars
    /\ [](/\ DOMAIN devices = {Strip(Fields(k)[4]) :
                                  k \in {j \in 1..Scanned : DeviceNameLine(j)}}
          /\ \A n \in DOMAIN devices :
                /\ DOMAIN devices[n].channels =
                      {IntOf(Fields(k)[3]) :
                          k \in {j \in 1..Scanned :
                                    ChannelLine(j) /\ Declares(j, n, IntOf(Fields(j)[3]))}}
                /\ \A c \in DOMAIN devices[n].channels :
                      devices[n].channels[c] =
                         DescriptorOf(Max({j \in 1..Scanned : Declares(j, n, c)})))

\* C7 witness: MHB is declared under id 7, channel 15 is declared under 7,
\* MHB is declared again under id 8 and channel 15 again under 8; MHB is one
\* device whose channel 15 has the descriptor of the last declaration.
C7_Witness ==
    /\ pc = "done"
    /\ lines = <<DevMHB7, ChAlt7, DevMHB8, ChHgt8>>
    /\ DOMAIN devices = {MHB}
    /\ device_id_to_name[7] = MHB
    /\ device_id_to_name[8] = MHB
    /\ devices[MHB].channels[15] = [name |-> Height, unit |-> Feet]

----------------------------------------------------------------------------
(* Claims about malformed lines                                            *)

\* A field of line k that one of the passes converts with int() is not an
\* integer: the ids of a metadata line, or the timestamp, the device id or a
\* channel id, decimal-places or raw field of a data line.
HasNonIntegerField(k) ==
    LET parts == Fields(k)
        cd == ChannelData(lines[k])
    IN  /\ ~StartsWith(lines[k], HASH)
        /\ IF parts[1] = MARKER
           THEN Len(parts) >= 4 /\ (~IsInt(parts[2]) \/ ~IsInt(parts[3]))
           ELSE /\ Len(parts) >= 6
                /\ \/ ~IsInt(parts[1])
                   \/ ~IsInt(parts[2])
                   \/ \E i \in StrideOffsets(cd) :
                         \E o \in {1, 3, 4} :
                            i + o <= Len(cd) /\ ~IsInt(cd[i + o])

\* Line k is a data line of at least 6 fields, all of them integers, whose
\* sample fields are not a multiple of 4 in number.
HasPartialStride(k) ==
    /\ ~StartsWith(lines[k], HASH)
    /\ Fields(k)[1] # MARKER
    /\ Len(Fields(k)) >= 6
    /\ \A f \in 1..Len(Fields(k)) : IsInt(Fields(k)[f])
    /\ Len(ChannelData(lines[k])) % 4 # 0

\* C1: parse() is never ended at a line that has a non-integer field: such
\* a line is skipped and the lines after it are processed.
C1_NonIntegerFieldSkipsOnlyItsLine ==
    \A k \in 1..Len(lines) :
       HasNonIntegerField(k) => ~(li = k /\ exc # "none")

\* C2: parse() is never ended at a data line whose sample fields are not a
\* multiple of 4: the trailing partial stride is ignored without an error.
C2_PartialStrideIgnored ==
    \A k \in 1..Len(lines) :
       HasPartialStride(k) => ~(li = k /\ exc # "none")

\* C8: pass 2 goes from the head of a line straight to the next line exactly
\* when the line starts with '#', has fewer than 6 fields, or has the marker
\* 000000000 as its first field; any other line is decoded.
C8_MetadataSkipOnFirstField ==
    [][(/\ pc = "parse_entries"
        /\ exc = "none"
        /\ si = -1
        /\ li <= Len(lines))
       => ((li' = li + 1)
             <=> \/ StartsWith(lines[li], HASH)
                 \/ Fields(li)[1] = MARKER
                 \/ Len(Fields(li)) < 6)
      ]_vars

\* C10: when pass 2 ends the processing of a data line at a malformed
\* stride, every Series is what the lines before that line made it: no
\* point of the malformed line has been appended.
C10_MalformedLineNotHalfApplied ==
    (pc = "parse_entries" /\ exc # "none")
       => \A n \in DOMAIN devices : \A c \in DOMAIN devices[n].data :
             devices[n].data[c] = ExpectedSeries(n, c, li - 1)

====
